---- MODULE Spec2Model ----
(***************************************************************************)
(* Model of the rent-search harvesting core:                               *)
(*   - backend/app/scraper.py : scrape_rakumachi, extract_property_data,   *)
(*                              create_mock_properties                     *)
(*   - backend/app/db.py      : the field parsers and save_property_data   *)
(*                                                                         *)
(* Text is a sequence of one-character tokens.  The Japanese characters of *)
(* the source are written as ASCII tokens: "man" "en" for the price marker *)
(* (ten-thousand yen), "nen" "gatsu" for year/month, "kai" "ken" for the   *)
(* floors marker, "m2" for square metres.                                  *)
(* Python's Optional is a sequence of length 0 (None) or 1 (a value).      *)
(***************************************************************************)
EXTENDS Integers, Sequences, FiniteSets, TLC

VARIABLES
    \* ---- scraper.py: one scrape_rakumachi call after the other ----
    pc,             \* position in scrape_rakumachi
    max_retries,    \* argument
    retry_count,    \* local
    properties,     \* local: the list being built
    mock_data,      \* local: Optional, the loaded fallback cache
    response,       \* the response of the latest attempt
    outcome,        \* how the latest attempt ended
    result,         \* the returned list
    cache_file,     \* mock_property_data.json
    html_file,      \* last_response.html
    home_requests,  \* requests to the site root in this call
    url_requests,   \* requests to the target URL in this call
    sleeps,         \* backoff sleeps in this call
    jitter,         \* Optional: the jitter of the backoff sleep under way, in tenths
    cache_at_call,  \* history: cache_file when this call started
    scrapes,        \* number of calls so far
    \* ---- db.py: one save_property_data call after the other ----
    Property,       \* table properties: the committed rows, in insertion order
    PriceHistory,   \* table price_history: the committed rows, in insertion order
    clock,          \* the latest reading of datetime.now()
    call,           \* the latest save_property_data call: its record and how it ended
    saves,          \* number of calls so far
    observed,       \* history: the listing ids a committed call carried a price for
    \* ---- db.py: one field parser applied to one argument ----
    argument,       \* what the parser is given
    parsed,         \* the latest parser call: the parser and how the call ended
    \* ---- db.py: two save_property_data calls at the same time ----
    session,        \* each call's position and what its queries returned
    pair,           \* the record both calls are given, and the store they started from
    pairs           \* number of pairs so far

scraper_vars == <<pc, max_retries, retry_count, properties, mock_data, response,
                  outcome, result, cache_file, html_file, home_requests,
                  url_requests, sleeps, jitter, cache_at_call, scrapes>>

store_vars == <<Property, PriceHistory, clock, call, saves, observed>>

parser_vars == <<argument, parsed>>

session_vars == <<session, pair, pairs>>

vars == <<scraper_vars, store_vars, parser_vars, session_vars>>

\* ------------------------------------------------------------------ bounds
MaxRetries == 2     \* max_retries ranges over 0..MaxRetries
MaxScrapes == 2     \* scrape_rakumachi calls in one behaviour
MaxSaves   == 3     \* save_property_data calls in one behaviour
MaxPairs   == 2     \* pairs of concurrent save_property_data calls in one behaviour

\* --------------------------------------------------------------- Optional
None == <<>>
Some(x) == <<x>>
IsNone(o) == o = <<>>
Val(o) == o[1]

\* ------------------------------------------------------------------- text
Digit == {"0", "1", "2", "3", "4", "5", "6", "7", "8", "9"}

DigitChar(d) ==
    CASE d = 0 -> "0" [] d = 1 -> "1" [] d = 2 -> "2" [] d = 3 -> "3"
      [] d = 4 -> "4" [] d = 5 -> "5" [] d = 6 -> "6" [] d = 7 -> "7"
      [] d = 8 -> "8" [] d = 9 -> "9"

\* str(n) for n >= 0
RECURSIVE Str(_)
Str(n) == IF n < 10 THEN <<DigitChar(n)>> ELSE Str(n \div 10) \o <<DigitChar(n % 10)>>

\* f"{n:02d}"
Pad2(n) == IF n < 10 THEN <<"0">> \o Str(n) ELSE Str(n)

\* f"{n:,}"
RECURSIVE Grouped(_)
Grouped(n) ==
    IF n < 1000 THEN Str(n)
    ELSE LET r == n % 1000
             pad == IF r < 10 THEN <<"0", "0">> ELSE IF r < 100 THEN <<"0">> ELSE <<>>
         IN Grouped(n \div 1000) \o <<",">> \o pad \o Str(r)

\* f"{5.0 + (i / 10):.1f}" for i in 1..10, computed in tenths
OneDecimal(tenths) == Str(tenths \div 10) \o <<".">> \o Str(tenths % 10)

\* ---------------------------------------------------------- mock dataset
MockCount == 10

Structures == <<"RC", "steel", "wood">>

DetailPrefix == <<"https://www.rakumachi.jp/syuuekibukken/detail/">>

\* One record of create_mock_properties.  The draws of the random module are a
\* function of the generator's state, seed.  The record has no 'access' key.
MockProperty(i, seed) ==
    [pub_date   |-> Some(<<"2", "0", "2", "5", "/", "0", "5", "/">> \o Pad2(i)),
     price      |-> Some(Grouped(i * 50) \o <<"man", "en">>),
     gross      |-> Some(OneDecimal(50 + i) \o <<"%">>),
     build_at   |-> Some(<<"2", "0", "1", "0", "nen">> \o Str(i) \o <<"gatsu">>),
     structure  |-> Some(<<Structures[((seed + i) % 3) + 1]>>),
     place      |-> Some(<<"Osaka-Chuo">> \o Str(i) \o <<"chome">> \o Str(i)
                          \o <<"-">> \o Str(i)),
     stories    |-> Some(Str(2 + ((7 * seed + i) % 9)) \o <<"kai", "ken">>),
     doors      |-> Some(Str(5 + ((11 * seed + i) % 46)) \o <<"ko">>),
     square     |-> Some(Str(20 + ((13 * seed + i) % 81)) \o <<"m2">>),
     detail_url |-> Some(DetailPrefix \o <<"i", "d">> \o Str(100000 + i) \o <<"/">>)]

create_mock_properties(seed) == [i \in 1..MockCount |-> MockProperty(i, seed)]

\* the states of the random generator that are told apart
Seeds == {0, 1}

\* ------------------------------------------------------------------ files
Absent     == [kind |-> "absent"]
Unreadable == [kind |-> "unreadable"]   \* open/decoding raises another error
BadJson    == [kind |-> "badjson"]      \* json.load raises JSONDecodeError
JsonFile(v) == [kind |-> "json", value |-> v]

json_dump(v) == JsonFile(v)

\* lines 44-49: the caught errors give None, any other error propagates
LoadRaises(file) == file.kind = "unreadable"
LoadMockData(file) == IF file.kind = "json" THEN Some(file.value) ELSE None

Truncated == [kind |-> "truncated"]
HtmlFile(body) == [kind |-> "html", body |-> body]

\* -------------------------------------------------------------- responses
\* One div.propertyBlock: whether it holds an .Ad__pr element, whether one of
\* its label spans is the last span of the document (findNext gives None),
\* and which listing it shows.
Blocks ==
    {[Ad__pr |-> FALSE, dangling |-> FALSE, n |-> n] : n \in {1, 2}}
    \cup {[Ad__pr |-> TRUE, dangling |-> FALSE, n |-> 1],
          [Ad__pr |-> FALSE, dangling |-> TRUE, n |-> 1]}

\* soup.select('div.propertyBlock'): the pages with at most two blocks
Pages == {<<>>} \cup {<<a>> : a \in Blocks} \cup {<<a, b>> : a \in Blocks, b \in Blocks}

Exc == [kind |-> "exc", status_code |-> 0, blocked |-> FALSE, blocks |-> <<>>]
Http(status, blocked, blocks) ==
    [kind |-> "http", status_code |-> status, blocked |-> blocked, blocks |-> blocks]

Responses ==
    {Exc, Http(403, FALSE, <<>>), Http(200, TRUE, <<>>),
     Http(200, TRUE, <<[Ad__pr |-> FALSE, dangling |-> FALSE, n |-> 1]>>)}
    \cup {Http(200, FALSE, p) : p \in Pages}

NoResponse == Exc

Body(resp) == [blocked |-> resp.blocked, blocks |-> resp.blocks]

\* ------------------------------------------------- extract_property_data
ListingUrl(n) == DetailPrefix \o <<"i", "d">> \o Str(n) \o <<"/">>

PropertyData(b) ==
    [pub_date   |-> Some(<<"2", "0", "2", "5", "/", "5", "/">> \o Str(b.n)),
     price      |-> Some(Str(b.n) \o <<"man", "en">>),
     gross      |-> Some(Str(b.n) \o <<"%">>),
     build_at   |-> None,
     structure  |-> None,
     place      |-> None,
     access     |-> None,
     stories    |-> None,
     doors      |-> None,
     square     |-> None,
     detail_url |-> Some(ListingUrl(b.n))]

\* value.text on the None that findNext returns raises; the except returns None
extract_property_data(b) == IF b.dangling THEN None ELSE Some(PropertyData(b))

\* lines 121-128: the loop over property_blocks
RECURSIVE ExtractBlocks(_, _)
ExtractBlocks(props, blocks) ==
    IF blocks = <<>> THEN props
    ELSE LET b == Head(blocks)
             d == extract_property_data(b)
         IN IF b.Ad__pr THEN ExtractBlocks(props, Tail(blocks))
            ELSE IF IsNone(d) THEN ExtractBlocks(props, Tail(blocks))
            ELSE ExtractBlocks(Append(props, Val(d)), Tail(blocks))

\* --------------------------------------------------- scrape_rakumachi
\* `while retry_count <= max_retries`
LoopGuardBad(rc, n) == rc <= n

\* line 51
LoopGuard(rc, n) == rc < n

\* lines 112, 135, 138, 142
FailedCountBad(rc) == rc + 2
FailedCount(rc) == rc + 1

\* line 130
StopsBad(props) == FALSE
Stops(props) == props # <<>>

\* lines 147-149
UseMockDataBad(mock, props) == props
UseMockData(mock, props) ==
    IF ~IsNone(mock) /\ Val(mock) # <<>> /\ props = <<>> THEN Val(mock) ELSE props

\* the values the callers give retry_delay, in seconds: 3 (main.py line 105)
\* and the default.  retry_delay only scales the backoff sleep, so a call is
\* modelled once for all of them and the sleep is kept as its jitter.
RetryDelays == {3, 10}

\* line 54: random.uniform(0.5, 2.0) in tenths, its ends and a value between
Jitters == {5, 10, 20}

\* line 55, in tenths of a second
sleep_time(retry_delay, j) == retry_delay * j

\* a backoff before every attempt
BackoffBad(rc) == TRUE

\* line 53
Backoff(rc) == rc > 0

\* lines 41-49: the call starts and loads the fallback cache
Call(n) ==
    /\ pc \in {"idle", "returned", "raised"}
    /\ scrapes < MaxScrapes
    /\ scrapes' = scrapes + 1
    /\ max_retries' = n
    /\ jitter' = None
    /\ properties' = <<>>
    /\ retry_count' = 0
    /\ response' = NoResponse
    /\ outcome' = "none"
    /\ result' = <<>>
    /\ home_requests' = 0
    /\ url_requests' = 0
    /\ sleeps' = 0
    /\ cache_at_call' = cache_file
    /\ IF LoadRaises(cache_file)
         THEN pc' = "raised" /\ mock_data' = None
         ELSE pc' = "loop" /\ mock_data' = LoadMockData(cache_file)
    /\ UNCHANGED <<cache_file, html_file>>
    /\ UNCHANGED <<store_vars, parser_vars, session_vars>>

\* lines 53-57: the backoff sleep before a retry starts
BackoffSleep ==
    /\ pc = "loop"
    /\ LoopGuard(retry_count, max_retries)
    /\ Backoff(retry_count)
    /\ \E j \in Jitters : jitter' = Some(j)
    /\ sleeps' = sleeps + 1
    /\ pc' = "sleeping"
    /\ UNCHANGED <<max_retries, retry_count, properties, mock_data, response, outcome,
                   result, cache_file, html_file, home_requests, url_requests,
                   cache_at_call, scrapes, store_vars, parser_vars,
                    session_vars>>

\* line 57: time.sleep returns
BackoffOver ==
    /\ pc = "sleeping"
    /\ jitter' = None
    /\ pc' = "slept"
    /\ UNCHANGED <<max_retries, retry_count, properties, mock_data, response, outcome,
                   result, cache_file, html_file, home_requests, url_requests, sleeps,
                   cache_at_call, scrapes, store_vars, parser_vars,
                    session_vars>>

\* lines 59-99: warm-up request (its failure is ignored), target request
Request(resp) ==
    /\ \/ pc = "slept"
       \/ /\ pc = "loop"
          /\ LoopGuard(retry_count, max_retries)
          /\ ~Backoff(retry_count)
    /\ UNCHANGED <<sleeps, jitter>>
    /\ home_requests' = home_requests + 1
    /\ url_requests' = url_requests + 1
    /\ response' = resp
    /\ UNCHANGED <<max_retries, mock_data, result, cache_file, cache_at_call, scrapes>>
    /\ UNCHANGED <<store_vars, parser_vars, session_vars>>

Failed(how) ==
    /\ retry_count' = FailedCount(retry_count)
    /\ outcome' = how
    /\ pc' = "loop"
    /\ UNCHANGED properties

\* lines 96-99, 140-142: the request raises
AttemptRaises ==
    /\ Request(Exc)
    /\ Failed("exception")
    /\ UNCHANGED html_file

\* lines 136-138
AttemptStatus ==
    \E resp \in Responses :
        /\ resp.kind = "http" /\ resp.status_code # 200
        /\ Request(resp)
        /\ Failed("status")
        /\ UNCHANGED html_file

\* lines 104-105 raise: open fails (file kept) or the write fails (file truncated)
AttemptWriteRaises ==
    \E resp \in Responses :
        /\ resp.kind = "http" /\ resp.status_code = 200
        /\ Request(resp)
        /\ Failed("exception")
        /\ \/ UNCHANGED html_file
           \/ html_file' = Truncated

\* lines 110-113
AttemptBlocked ==
    \E resp \in Responses :
        /\ resp.kind = "http" /\ resp.status_code = 200 /\ resp.blocked
        /\ Request(resp)
        /\ html_file' = HtmlFile(Body(resp))
        /\ Failed("blocked")

\* lines 115-135
AttemptExtract ==
    \E resp \in Responses :
        /\ resp.kind = "http" /\ resp.status_code = 200 /\ ~resp.blocked
        /\ Request(resp)
        /\ html_file' = HtmlFile(Body(resp))
        /\ LET props == ExtractBlocks(properties, resp.blocks)
           IN IF Stops(props)
                THEN /\ properties' = props
                     /\ outcome' = "success"
                     /\ pc' = "break"
                     /\ UNCHANGED retry_count
                ELSE /\ properties' = props
                     /\ outcome' = "empty"
                     /\ pc' = "loop"
                     /\ retry_count' = FailedCount(retry_count)

LoopDone ==
    \/ pc = "break"
    \/ pc = "loop" /\ ~LoopGuard(retry_count, max_retries)

Keep == UNCHANGED <<max_retries, retry_count, properties, mock_data, response, outcome,
                    html_file, home_requests, url_requests, sleeps, jitter,
                    cache_at_call, scrapes, store_vars, parser_vars,
                    session_vars>>

\* lines 144, 158: the loop was left by break
ReturnLive ==
    /\ LoopDone
    /\ retry_count # max_retries
    /\ result' = properties
    /\ pc' = "returned"
    /\ UNCHANGED cache_file
    /\ Keep

\* lines 144-151, 158: the cached dataset is returned
ReturnCached ==
    /\ LoopDone
    /\ retry_count = max_retries
    /\ UseMockData(mock_data, properties) # <<>>
    /\ result' = UseMockData(mock_data, properties)
    /\ pc' = "returned"
    /\ UNCHANGED cache_file
    /\ Keep

\* lines 151-158: a dataset is synthesized, cached and returned
ReturnSynthesized ==
    \E seed \in Seeds :
        /\ LoopDone
        /\ retry_count = max_retries
        /\ UseMockData(mock_data, properties) = <<>>
        /\ cache_file' = json_dump(create_mock_properties(seed))
        /\ result' = create_mock_properties(seed)
        /\ pc' = "returned"
        /\ Keep

\* lines 154-155 raise: open fails (file kept) or json.dump fails (file partial)
SynthesizeRaises ==
    /\ LoopDone
    /\ retry_count = max_retries
    /\ UseMockData(mock_data, properties) = <<>>
    /\ \/ UNCHANGED cache_file
       \/ cache_file' = BadJson
    /\ result' = <<>>
    /\ pc' = "raised"
    /\ Keep

\* ================================================================== db.py
\* ---------------------------------------------------------------- regex
DigitVal(c) ==
    CASE c = "0" -> 0 [] c = "1" -> 1 [] c = "2" -> 2 [] c = "3" -> 3
      [] c = "4" -> 4 [] c = "5" -> 5 [] c = "6" -> 6 [] c = "7" -> 7
      [] c = "8" -> 8 [] c = "9" -> 9

\* int(text) for a non-empty run of digits
RECURSIVE ToInt(_)
ToInt(ds) ==
    IF ds = <<>> THEN 0
    ELSE 10 * ToInt(SubSeq(ds, 1, Len(ds) - 1)) + DigitVal(ds[Len(ds)])

RECURSIVE Pow10(_)
Pow10(e) == IF e = 0 THEN 1 ELSE 10 * Pow10(e - 1)

HasAt(t, i, w) ==
    /\ i + Len(w) - 1 <= Len(t)
    /\ \A k \in 1..Len(w) : t[i + k - 1] = w[k]

\* length of the longest run of tokens of class that starts at position i
RECURSIVE RunLen(_, _, _)
RunLen(t, i, class) ==
    IF i > Len(t) THEN 0
    ELSE IF t[i] \notin class THEN 0
    ELSE 1 + RunLen(t, i + 1, class)

Min(S) == CHOOSE x \in S : \A y \in S : x <= y

\* re.search(pre gap* (class+) suf, t): the group of the leftmost match, or None.
\* No token of gap or suf is in class, so the greedy run is the whole run.
re_search(t, pre, gap, class, suf) ==
    LET from(i) == i + Len(pre) + RunLen(t, i + Len(pre), gap)
        run(i) == RunLen(t, from(i), class)
        hits == {i \in 1..Len(t) :
                    /\ HasAt(t, i, pre)
                    /\ run(i) >= 1
                    /\ HasAt(t, from(i) + run(i), suf)}
    IN IF hits = {} THEN None
       ELSE Some(SubSeq(t, from(Min(hits)), from(Min(hits)) + run(Min(hits)) - 1))

\* float(text) for text over digits and '.', as <<m, e>> = m / 10^e in lowest
\* terms; None is the ValueError
RECURSIVE Normal(_, _)
Normal(m, e) == IF e > 0 /\ m % 10 = 0 THEN Normal(m \div 10, e - 1) ELSE <<m, e>>

ParseFloat(g) ==
    LET isDot(c) == c = "."
        isDig(c) == c \in Digit
        dots == SelectSeq(g, isDot)
        digs == SelectSeq(g, isDig)
        dot == Min({i \in 1..Len(g) : g[i] = "."})
    IN IF Len(dots) > 1 \/ digs = <<>> THEN None
       ELSE IF dots = <<>> THEN Some(Normal(ToInt(digs), 0))
       ELSE Some(Normal(ToInt(digs), Len(g) - dot))

\* int(f) for a float f >= 0
Trunc(f) == f[1] \div Pow10(f[2])

\* ------------------------------------------------------------ the parsers
\* A parser is given None, Some(text), or a value that is not text: the int n
IntArg(n) == <<"int", n>>
IsStr(a) == Len(a) = 1

\* `not a`
Falsy(a) ==
    IF IsNone(a) THEN TRUE
    ELSE IF IsStr(a) THEN Val(a) = <<>>
    ELSE a[2] = 0

\* How a call ends: it returns a value, or it raises; exc is the exception
\* raised, or the one the handler logged
Return(v) == [raised |-> FALSE, exc |-> "", value |-> v]
Raise(exc) == [raised |-> TRUE, exc |-> exc, value |-> None]

\* int(), float(), date() and strptime() raise ValueError where the model
\* of the conversion gives None
Converted(o) == IF IsNone(o) THEN Raise("ValueError") ELSE Return(o)

\* no handler: what the try block raises leaves the parser
except_ExceptionBad(out, absent) == out

\* `except Exception as e:` logs e and returns absent
except_Exception(out, absent) ==
    IF out.raised THEN [raised |-> FALSE, exc |-> out.exc, value |-> absent]
    ELSE out

\* the pattern without its "id"
extract_listing_idBad(detail_url) ==
    IF ~IsStr(detail_url) THEN Return(None)
    ELSE LET m == re_search(Val(detail_url), <<>>, {}, Digit, <<>>)
         IN IF IsNone(m) THEN Return(None) ELSE Return(Some(ToInt(Val(m))))

\* lines 71-80; re.search on a value that is not text raises TypeError
extract_listing_id(detail_url) ==
    except_Exception(
        IF ~IsStr(detail_url) THEN Raise("TypeError")
        ELSE LET m == re_search(Val(detail_url), <<"i", "d">>, {}, Digit, <<>>)
             IN IF IsNone(m) THEN Return(None) ELSE Return(Some(ToInt(Val(m)))),
        None)

IsLeap(y) == (y % 4 = 0 /\ y % 100 # 0) \/ y % 400 = 0

DaysIn(y, m) ==
    IF m = 2 THEN (IF IsLeap(y) THEN 29 ELSE 28)
    ELSE IF m \in {4, 6, 9, 11} THEN 30 ELSE 31

\* date(y, m, d), None for the ValueError
MakeDate(y, m, d) ==
    IF y >= 1 /\ m >= 1 /\ m <= 12 /\ d >= 1 /\ d <= DaysIn(y, m)
    THEN Some(<<y, m, d>>) ELSE None

\* lines 82-100
parse_date(date_str) ==
    IF Falsy(date_str) THEN Return(None)
    ELSE except_Exception(
        IF ~IsStr(date_str) THEN Raise("TypeError")
        ELSE LET t == Val(date_str)
                 r2 == RunLen(t, 6, Digit)
                 r3 == RunLen(t, 7 + r2, Digit)
                 head == RunLen(t, 1, Digit) = 4
                 slashed == /\ head
                            /\ HasAt(t, 5, <<"/">>)
                            /\ r2 \in {1, 2}
                            /\ HasAt(t, 6 + r2, <<"/">>)
                            /\ r3 >= 1
                 \* strptime takes the whole text
                 whole == r3 \in {1, 2} /\ Len(t) = 6 + r2 + r3
                 kanji == /\ head
                          /\ HasAt(t, 5, <<"nen">>)
                          /\ r2 \in {1, 2}
                          /\ HasAt(t, 6 + r2, <<"gatsu">>)
             IN IF slashed
                  THEN IF whole
                         THEN Converted(MakeDate(ToInt(SubSeq(t, 1, 4)),
                                                 ToInt(SubSeq(t, 6, 5 + r2)),
                                                 ToInt(SubSeq(t, 7 + r2, 6 + r2 + r3))))
                         ELSE Raise("ValueError")
                ELSE IF kanji
                  THEN Converted(MakeDate(ToInt(SubSeq(t, 1, 4)),
                                          ToInt(SubSeq(t, 6, 5 + r2)), 1))
                ELSE Return(None),
        None)

\* the commas are left in: int('1,234') raises ValueError
extract_priceBad(price_str) ==
    IF Falsy(price_str) THEN Return(None)
    ELSE except_Exception(
        IF ~IsStr(price_str) THEN Raise("TypeError")
        ELSE LET m == re_search(Val(price_str), <<>>, {}, Digit \cup {","},
                                <<"man", "en">>)
             IN IF IsNone(m) THEN Return(None)
                ELSE IF \E i \in 1..Len(Val(m)) : Val(m)[i] = ","
                       THEN Raise("ValueError")
                ELSE Return(Some(ToInt(Val(m)))),
        None)

\* lines 102-115; int('') raises ValueError
extract_price(price_str) ==
    IF Falsy(price_str) THEN Return(None)
    ELSE except_Exception(
        IF ~IsStr(price_str) THEN Raise("TypeError")
        ELSE LET m == re_search(Val(price_str), <<>>, {}, Digit \cup {","},
                                <<"man", "en">>)
                 isDig(c) == c # ","
             IN IF IsNone(m) THEN Return(None)
                ELSE IF SelectSeq(Val(m), isDig) = <<>> THEN Raise("ValueError")
                ELSE Return(Some(ToInt(SelectSeq(Val(m), isDig)))),
        None)

\* lines 117-129
extract_gross(gross_str) ==
    IF Falsy(gross_str) THEN Return(None)
    ELSE except_Exception(
        IF ~IsStr(gross_str) THEN Raise("TypeError")
        ELSE LET m == re_search(Val(gross_str), <<>>, {}, Digit \cup {"."}, <<"%">>)
             IN IF IsNone(m) THEN Return(None) ELSE Converted(ParseFloat(Val(m))),
        None)

\* lines 131-143
extract_floors(floors_str) ==
    IF Falsy(floors_str) THEN Return(None)
    ELSE except_Exception(
        IF ~IsStr(floors_str) THEN Raise("TypeError")
        ELSE LET m == re_search(Val(floors_str), <<>>, {}, Digit, <<"kai", "ken">>)
             IN IF IsNone(m) THEN Return(None) ELSE Return(Some(ToInt(Val(m)))),
        None)

\* lines 145-168: <<building_area, land_area>>; a float() that raises loses both
extract_area(area_str) ==
    IF Falsy(area_str) THEN Return(<<None, None>>)
    ELSE except_Exception(
        IF ~IsStr(area_str) THEN Raise("TypeError")
        ELSE LET t == Val(area_str)
                 bm == re_search(t, <<"ken", "butsu">>, {}, Digit \cup {"."}, <<"m2">>)
                 lm == re_search(t, <<"to", "chi">>, {" "}, Digit \cup {"."}, <<"m2">>)
                 bf == IF IsNone(bm) THEN None ELSE ParseFloat(Val(bm))
                 lf == IF IsNone(lm) THEN None ELSE ParseFloat(Val(lm))
             IN IF (~IsNone(bm) /\ IsNone(bf)) \/ (~IsNone(lm) /\ IsNone(lf))
                  THEN Raise("ValueError")
                  ELSE Return(<<IF IsNone(bf) THEN None ELSE Some(Trunc(Val(bf))),
                                IF IsNone(lf) THEN None ELSE Some(Trunc(Val(lf)))>>),
        <<None, None>>)

\* ------------------------------------------------------------ raw records
\* dict.get
Get(rec, key) == IF key \in DOMAIN rec THEN rec[key] ELSE None

Text(n, mark) == Some(Str(n) \o mark)

NoDetails ==
    [pub_date |-> None, build_at |-> None, structure |-> None, place |-> None,
     access |-> None, stories |-> None, doors |-> None, square |-> None]

FullDetails ==
    [pub_date  |-> Some(<<"2", "0", "2", "5", "/", "5", "/", "1">>),
     build_at  |-> Some(<<"2", "0", "1", "0", "nen", "3", "gatsu">>),
     structure |-> Some(<<"RC">>),
     place     |-> Some(<<"Osaka-Chuo">>),
     access    |-> Some(<<"walk">>),
     stories   |-> Some(<<"3", "kai", "ken">>),
     doors     |-> Some(<<"8", "ko">>),
     square    |-> Some(<<"ken", "butsu", "5", "0", ".", "5", "m2", " ",
                          "to", "chi", "1", "0", "0", "m2">>)]

\* month 13, zero floors, zero areas
ZeroDetails ==
    [pub_date  |-> Some(<<"2", "0", "2", "5", "/", "1", "3", "/", "1">>),
     build_at  |-> Some(<<"2", "0", "1", "1", "nen", "4", "gatsu">>),
     structure |-> Some(<<"wood">>),
     place     |-> Some(<<"Osaka-Kita">>),
     access    |-> None,
     stories   |-> Some(<<"0", "kai", "ken">>),
     doors     |-> None,
     square    |-> Some(<<"ken", "butsu", "0", "m2", " ", "to", "chi", " ", "0", "m2">>)]

RawRecord(u, p, g, d) ==
    [pub_date |-> d.pub_date, price |-> p, gross |-> g, build_at |-> d.build_at,
     structure |-> d.structure, place |-> d.place, access |-> d.access,
     stories |-> d.stories, doors |-> d.doors, square |-> d.square, detail_url |-> u]

Yen(n) == Text(n, <<"man", "en">>)

PriceTexts == <<None, Yen(0), Yen(1), Yen(2)>>

GrossTexts == <<None, Text(0, <<"%">>), Some(<<"5", ".", "5", "%">>)>>

\* a URL with digits, but none right after "id"
NoIdUrl == DetailPrefix \o <<"i", "d", "/", "1">>

\* another page of listing 1: the same id under another address
MovedUrl == ListingUrl(1) \o <<"?", "p", "=", "2">>

\* The records save_property_data is called with, numbered:
\*   listing 1 with every price text and every yield text,
\*   listing 1 with the other fields present,
\*   listing 2 without and with a price,
\*   records whose URL is absent, has no id, or has id0,
\*   listing 1 under its other URL
Inputs ==
    [k \in 1..(Len(PriceTexts) * Len(GrossTexts)) |->
        RawRecord(Some(ListingUrl(1)),
                  PriceTexts[((k - 1) \div Len(GrossTexts)) + 1],
                  GrossTexts[((k - 1) % Len(GrossTexts)) + 1],
                  NoDetails)]
    \o <<RawRecord(Some(ListingUrl(1)), Yen(1), None, FullDetails),
         RawRecord(Some(ListingUrl(1)), Yen(1), None, ZeroDetails),
         RawRecord(Some(ListingUrl(2)), None, None, NoDetails),
         RawRecord(Some(ListingUrl(2)), Yen(1), None, NoDetails),
         RawRecord(None, Yen(1), None, NoDetails),
         RawRecord(Some(NoIdUrl), Yen(1), None, NoDetails),
         RawRecord(Some(ListingUrl(0)), Yen(1), None, NoDetails),
         RawRecord(Some(MovedUrl), Yen(1), None, FullDetails)>>

\* lines 175-185
Parsed(rec) ==
    [listing_id    |-> extract_listing_id(Get(rec, "detail_url")).value,
     pub_date      |-> parse_date(Get(rec, "pub_date")).value,
     build_at      |-> parse_date(Get(rec, "build_at")).value,
     price         |-> extract_price(Get(rec, "price")).value,
     gross         |-> extract_gross(Get(rec, "gross")).value,
     floors        |-> extract_floors(Get(rec, "stories")).value,
     building_area |-> extract_area(Get(rec, "square")).value[1],
     land_area     |-> extract_area(Get(rec, "square")).value[2]]

\* Parsed of each input, computed once
ParsedInputs == [k \in 1..Len(Inputs) |-> Parsed(Inputs[k])]

\* ------------------------------------------------------ save_property_data
\* `if x:` on an Optional[int] and on an Optional[float]
TruthyInt(o) == ~IsNone(o) /\ Val(o) # 0
TruthyFloat(o) == ~IsNone(o) /\ Val(o)[1] # 0

\* line 176: `if not listing_id`
Rejected(listing_id) == ~TruthyInt(listing_id)

\* line 187: the rows with this listing_id (listing_id is unique)
ExistingBad(listing_id) == {}
Existing(listing_id) == {i \in 1..Len(Property) : Property[i].listing_id = listing_id}

\* lines 204-206: the rows order_by(scraped_at.desc()).first() can return
Latest(property_id) ==
    {i \in 1..Len(PriceHistory) :
        /\ PriceHistory[i].property_id = property_id
        /\ \A j \in 1..Len(PriceHistory) :
              PriceHistory[j].property_id = property_id
                  => PriceHistory[j].scraped_at <= PriceHistory[i].scraped_at}

\* lines 208-211, latest_price is an Optional row
price_changedBad(latest_price, price, gross) ==
    ~IsNone(latest_price) /\ TruthyInt(price) /\ Val(price) # Val(latest_price).price
price_changed(latest_price, price, gross) ==
    /\ ~IsNone(latest_price)
    /\ \/ (TruthyInt(price) /\ Val(price) # Val(latest_price).price)
       \/ (TruthyFloat(gross) /\ gross # Val(latest_price).gross)

\* line 213
Appends(latest_price, price, gross) ==
    price_changed(latest_price, price, gross) \/ IsNone(latest_price)

\* lines 190-202: detail_url is not among the assignments
UpdatedPropertyBad(row, rec, p) ==
    [row EXCEPT !.address = Get(rec, "place"), !.detail_url = Get(rec, "detail_url")]
UpdatedProperty(row, rec, p) ==
    [row EXCEPT
        !.address       = Get(rec, "place"),
        !.access        = Get(rec, "access"),
        !.structure     = Get(rec, "structure"),
        !.pub_date      = IF ~IsNone(p.pub_date) THEN p.pub_date ELSE @,
        !.build_at      = IF ~IsNone(p.build_at) THEN p.build_at ELSE @,
        !.floors        = IF TruthyInt(p.floors) THEN p.floors ELSE @,
        !.building_area = IF TruthyInt(p.building_area) THEN p.building_area ELSE @,
        !.land_area     = IF TruthyInt(p.land_area) THEN p.land_area ELSE @]

\* lines 224-236; the autoincrement id is the next row number
NewProperty(rec, p, now) ==
    [id            |-> Len(Property) + 1,
     listing_id    |-> Val(p.listing_id),
     address       |-> Get(rec, "place"),
     pub_date      |-> p.pub_date,
     access        |-> Get(rec, "access"),
     structure     |-> Get(rec, "structure"),
     land_area     |-> p.land_area,
     building_area |-> p.building_area,
     build_at      |-> p.build_at,
     floors        |-> p.floors,
     detail_url    |-> Get(rec, "detail_url"),
     scraped_at    |-> now,
     closed_at     |-> None]

\* lines 214-219 and 241-246
NewPriceHistory(property_id, price, gross, now) ==
    [id          |-> Len(PriceHistory) + 1,
     property_id |-> property_id,
     price       |-> price,
     gross       |-> gross,
     scraped_at  |-> now]

\* line 240
InitialSnapshotBad(price) == TruthyInt(price)
InitialSnapshot(price) == ~IsNone(price)

\* lines 220, 237, 247: session.add of a new row
session_addBad(table, row) ==
    IF table = <<>> THEN <<row>> ELSE [table EXCEPT ![Len(table)] = row]
session_add(table, row) == Append(table, row)

\* lines 189-220: the tables as the session holds them before the commit, one
\* pair <<Property, PriceHistory>> for each row the latest_price query can
\* give; rec is the record and p its parsed fields
PendingUpdate(rec, p, now) ==
    LET i == Min(Existing(Val(p.listing_id)))
        row == Property[i]
        found == IF Latest(row.id) = {} THEN {None}
                 ELSE {Some(PriceHistory[j]) : j \in Latest(row.id)}
    IN {<<[Property EXCEPT ![i] = UpdatedProperty(row, rec, p)],
          IF Appends(latest_price, p.price, p.gross)
            THEN session_add(PriceHistory,
                             NewPriceHistory(row.id,
                                             IF ~IsNone(p.price) THEN Val(p.price) ELSE 0,
                                             p.gross, now))
            ELSE PriceHistory>> : latest_price \in found}

\* lines 224-238: the new Listing is flushed
Flushed(rec, p, now) ==
    <<session_add(Property, NewProperty(rec, p, now)), PriceHistory>>

\* lines 224-247: the tables as the session holds them before the commit
PendingCreate(rec, p, now) ==
    <<session_add(Property, NewProperty(rec, p, now)),
      IF InitialSnapshot(p.price)
        THEN session_add(PriceHistory,
                         NewPriceHistory(Len(Property) + 1, Val(p.price), p.gross, now))
        ELSE PriceHistory>>

\* what the session holds when a statement raises: nothing yet (the lookup of
\* line 187), the flushed Listing (lines 204, 238), or all of it (line 251)
InFlight(rec, p, now) ==
    {<<Property, PriceHistory>>}
    \cup IF Existing(Val(p.listing_id)) = {}
           THEN {Flushed(rec, p, now), PendingCreate(rec, p, now)}
           ELSE LET all == PendingUpdate(rec, p, now)
                IN all \cup {<<pending[1], PriceHistory>> : pending \in all}

\* line 253: session.rollback() drops what the session holds
rollbackBad(committed, pending) == pending
rollback(committed, pending) == committed

\* lines 178, 256: every path returns None
ReturnValue(how) == None

\* lines 252-256: the except clause catches every Exception and raises nothing
PropagatesBad(how) == how = "failed"
Propagates(how) == FALSE

\* The call is recorded by the number of its record, how it ended, what it
\* returned, whether it raised, and how the call before it ended if that was
\* given the same record.  Lines 266-268: the loop of
\* save_properties_from_rakumachi goes on while no call raises.
Called(k, p, how) ==
    /\ saves < MaxSaves
    /\ ~call.raised
    /\ saves' = saves + 1
    /\ call' = [input |-> k, outcome |-> how,
                after |-> IF call.input = k THEN call.outcome ELSE "other",
                returned |-> ReturnValue(how),
                raised |-> Propagates(how)]
    /\ observed' = IF how \in {"created", "updated"} /\ ~IsNone(p.price)
                     THEN observed \cup {Val(p.listing_id)}
                     ELSE observed
    /\ UNCHANGED <<scraper_vars, parser_vars, session_vars>>

Times == {clock, clock + 1}

\* lines 175-178: no listing id, nothing is written
SaveSkipped ==
    \E k \in 1..Len(Inputs) :
        LET p == ParsedInputs[k] IN
        /\ Rejected(p.listing_id)
        /\ Called(k, p, "skipped")
        /\ UNCHANGED <<Property, PriceHistory, clock>>

\* lines 189-222, 251: the listing exists
SaveUpdated ==
    \E k \in 1..Len(Inputs) :
        LET p == ParsedInputs[k] IN
        /\ saves < MaxSaves
        /\ ~Rejected(p.listing_id)
        /\ Existing(Val(p.listing_id)) # {}
        /\ Called(k, p, "updated")
        /\ \E now \in Times :
              \E pending \in PendingUpdate(Inputs[k], p, now) :
                  /\ Property' = pending[1]
                  /\ PriceHistory' = pending[2]
                  /\ IF pending[2] # PriceHistory THEN clock' = now ELSE UNCHANGED clock

\* lines 223-251: the listing is new
SaveCreated ==
    \E k \in 1..Len(Inputs) :
        LET p == ParsedInputs[k] IN
        /\ saves < MaxSaves
        /\ ~Rejected(p.listing_id)
        /\ Existing(Val(p.listing_id)) = {}
        /\ Called(k, p, "created")
        /\ \E now \in Times :
              LET pending == PendingCreate(Inputs[k], p, now)
              IN /\ Property' = pending[1]
                 /\ PriceHistory' = pending[2]
                 /\ clock' = now

\* lines 252-254: the lookup, a flush or the commit raises; rollback
SaveFailed ==
    \E k \in 1..Len(Inputs) :
        LET p == ParsedInputs[k] IN
        /\ saves < MaxSaves
        /\ ~Rejected(p.listing_id)
        /\ Called(k, p, "failed")
        /\ \E now \in Times :
              \E pending \in InFlight(Inputs[k], p, now) :
                  LET kept == rollback(<<Property, PriceHistory>>, pending)
                  IN /\ Property' = kept[1]
                     /\ PriceHistory' = kept[2]
        /\ UNCHANGED clock

NoCall == [input |-> 0, outcome |-> "none", after |-> "none",
           returned |-> None, raised |-> FALSE]

\* create_tables: both tables empty
InitStore ==
    /\ Property = <<>>
    /\ PriceHistory = <<>>
    /\ clock = 0
    /\ call = NoCall
    /\ saves = 0
    /\ observed = {}

NextStore ==
    \/ SaveSkipped
    \/ SaveUpdated
    \/ SaveCreated
    \/ SaveFailed

\* ------------------------------------------------- the parsers, one call
\* The arguments the parsers are applied to: None, empty text, values that are
\* not text, and texts that match no pattern, match and convert, or match and
\* do not convert
Arguments ==
    {None, Some(<<>>), IntArg(0), IntArg(5)}
    \cup {Some(t) : t \in
          {<<"a", "b", "c">>,
           \* prices
           <<"1", ",", "2", "3", "4", "man", "en">>,
           <<",", "man", "en">>,
           <<"1", "2", ",", "man", "en">>,
           <<"a", "7", "man", "en", "8", "man", "en">>,
           <<"1", "2", " ", "man", "en">>,
           <<"1", "2", " ", "3", "man", "en">>,
           <<"1", "2", "man">>,
           <<"0", "man", "en">>,
           \* yields
           <<"5", ".", "5", "%">>,
           <<".", ".", "%">>,
           <<".", "%">>,
           <<"5", ".", "%">>,
           <<"0", "%">>,
           \* dates
           <<"2", "0", "2", "5", "/", "1", "3", "/", "1">>,
           <<"2", "0", "2", "5", "/", "1", "/", "1", "5">>,
           <<"2", "0", "2", "5", "/", "1", "/", "1", "5", "x">>,
           <<"2", "0", "2", "4", "/", "2", "/", "2", "9">>,
           <<"2", "0", "2", "3", "/", "2", "/", "2", "9">>,
           <<"2", "0", "2", "5", "/", "1">>,
           <<"2", "0", "1", "1", "nen", "4", "gatsu">>,
           <<"2", "0", "1", "1", "nen", "1", "3", "gatsu">>,
           <<"0", "0", "0", "0", "nen", "1", "gatsu">>,
           \* floors
           <<"3", "kai", "ken">>,
           <<"kai", "ken">>,
           \* areas
           <<"ken", "butsu", "5", "0", ".", "5", "m2", " ", "to", "chi", "1", "0", "0", "m2">>,
           <<"ken", "butsu", ".", ".", "m2">>,
           <<"ken", "butsu", "5", "m2", " ", "to", "chi", ".", "m2">>,
           <<"to", "chi", " ", "1", "0", "0", "m2">>,
           \* URLs
           ListingUrl(1), ListingUrl(0), NoIdUrl}}

NoParse == [parser |-> "none", out |-> Return(None)]

Apply_extract_listing_id ==
    /\ parsed' = [parser |-> "extract_listing_id", out |-> extract_listing_id(argument)]
    /\ UNCHANGED <<argument, scraper_vars, store_vars, session_vars>>

Apply_parse_date ==
    /\ parsed' = [parser |-> "parse_date", out |-> parse_date(argument)]
    /\ UNCHANGED <<argument, scraper_vars, store_vars, session_vars>>

Apply_extract_price ==
    /\ parsed' = [parser |-> "extract_price", out |-> extract_price(argument)]
    /\ UNCHANGED <<argument, scraper_vars, store_vars, session_vars>>

Apply_extract_gross ==
    /\ parsed' = [parser |-> "extract_gross", out |-> extract_gross(argument)]
    /\ UNCHANGED <<argument, scraper_vars, store_vars, session_vars>>

Apply_extract_floors ==
    /\ parsed' = [parser |-> "extract_floors", out |-> extract_floors(argument)]
    /\ UNCHANGED <<argument, scraper_vars, store_vars, session_vars>>

Apply_extract_area ==
    /\ parsed' = [parser |-> "extract_area", out |-> extract_area(argument)]
    /\ UNCHANGED <<argument, scraper_vars, store_vars, session_vars>>

\* no parser call is under way
InitParsed ==
    /\ argument = None
    /\ parsed = NoParse

NextParsers ==
    \/ Apply_extract_listing_id
    \/ Apply_parse_date
    \/ Apply_extract_price
    \/ Apply_extract_gross
    \/ Apply_extract_floors
    \/ Apply_extract_area

\* ------------------------------------- save_property_data, two at a time
\* Two processes (the API endpoint of main.py lines 110-129 and the daily
\* script both call save_properties_from_rakumachi) reconcile the same record
\* at the same time.  Each call has its own Session (line 172), hence its own
\* transaction; the engine is created without an isolation level (line 29), so
\* the transactions run under the default of the store: the reads of a
\* transaction see the rows committed when it first read and its own writes,
\* and the unique index on listing_id (line 39) refuses a second row.
Sessions == {1, 2}

Closed == [pc |-> "closed", existing_property |-> None, latest_price |-> None]

Ended(t) == session[t].pc \in {"closed", "committed", "failed"}

\* lines 172-186: both calls are given record k, each opens its Session; a
\* record without a listing id returns at line 178 before any statement runs
Enter(k, p) ==
    /\ pairs < MaxPairs
    /\ \A t \in Sessions : Ended(t)
    /\ ~Rejected(p.listing_id)
    /\ pairs' = pairs + 1
    /\ pair' = [input |-> k, start |-> <<Property, PriceHistory>>, clock |-> clock]
    /\ session' = [t \in Sessions |-> [Closed EXCEPT !.pc = "begun"]]
    /\ UNCHANGED <<scraper_vars, store_vars, parser_vars>>

\* lines 187, 204-206: the lookup of the Listing and of its latest snapshot,
\* both among the rows committed when the transaction first reads
Lookup(t) ==
    /\ session[t].pc = "begun"
    /\ LET p == ParsedInputs[pair.input]
           found == Existing(Val(p.listing_id))
       IN \E latest_price \in
              IF found = {} \/ Latest(Property[Min(found \cup {1})].id) = {}
                THEN {None}
                ELSE {Some(PriceHistory[j]) : j \in Latest(Property[Min(found)].id)} :
            session' = [session EXCEPT ![t] =
                           [pc |-> "looked",
                            existing_property |->
                                IF found = {} THEN None ELSE Some(Min(found)),
                            latest_price |-> latest_price]]
    /\ UNCHANGED <<pair, pairs, scraper_vars, store_vars, parser_vars>>

\* lines 189-222, 251: the Listing was found; the change is decided against
\* the snapshot this transaction read, the rows are written and committed
WriteUpdate(t, rec, p) ==
    /\ session[t].pc = "looked"
    /\ ~IsNone(session[t].existing_property)
    /\ LET i == Val(session[t].existing_property)
       IN /\ Property' = [Property EXCEPT ![i] = UpdatedProperty(Property[i], rec, p)]
          /\ IF Appends(session[t].latest_price, p.price, p.gross)
               THEN \E now \in Times :
                      /\ PriceHistory' =
                            session_add(PriceHistory,
                                        NewPriceHistory(Property[i].id,
                                                        IF ~IsNone(p.price) THEN Val(p.price) ELSE 0,
                                                        p.gross, now))
                      /\ clock' = now
               ELSE UNCHANGED <<PriceHistory, clock>>
    /\ session' = [session EXCEPT ![t].pc = "committed"]
    /\ UNCHANGED <<pair, pairs, call, saves, observed, scraper_vars, parser_vars>>

\* lines 223-251: no Listing was found and none has been committed since
WriteCreate(t, rec, p) ==
    /\ session[t].pc = "looked"
    /\ IsNone(session[t].existing_property)
    /\ Existing(Val(p.listing_id)) = {}
    /\ \E now \in Times :
          LET pending == PendingCreate(rec, p, now)
          IN /\ Property' = pending[1]
             /\ PriceHistory' = pending[2]
             /\ clock' = now
    /\ session' = [session EXCEPT ![t].pc = "committed"]
    /\ UNCHANGED <<pair, pairs, call, saves, observed, scraper_vars, parser_vars>>

\* lines 237-238, 252-254: no Listing was found, but the other transaction has
\* committed one: the INSERT breaks the unique index, the flush raises
\* IntegrityError and the handler rolls back
WriteFails(t, rec, p) ==
    /\ session[t].pc = "looked"
    /\ IsNone(session[t].existing_property)
    /\ Existing(Val(p.listing_id)) # {}
    /\ LET kept == rollback(<<Property, PriceHistory>>, Flushed(rec, p, clock))
       IN Property' = kept[1] /\ PriceHistory' = kept[2]
    /\ session' = [session EXCEPT ![t].pc = "failed"]
    /\ UNCHANGED <<pair, pairs, clock, call, saves, observed, scraper_vars, parser_vars>>

InitSessions ==
    /\ session = [t \in Sessions |-> Closed]
    /\ pair = [input |-> 0, start |-> <<<<>>, <<>>>>, clock |-> 0]
    /\ pairs = 0

NextSessions ==
    \/ \E k \in 1..Len(Inputs) : Enter(k, ParsedInputs[k])
    \/ \E t \in Sessions : Lookup(t)
    \/ \E t \in Sessions : WriteUpdate(t, Inputs[pair.input], ParsedInputs[pair.input])
    \/ \E t \in Sessions : WriteCreate(t, Inputs[pair.input], ParsedInputs[pair.input])
    \/ \E t \in Sessions : WriteFails(t, Inputs[pair.input], ParsedInputs[pair.input])

\* ============================================================ specifications
\* a dataset put into the cache file from outside: one record of the shape
\* extract_property_data gives
StoredDataset == <<PropertyData([Ad__pr |-> FALSE, dangling |-> FALSE, n |-> 1])>>

\* lines 44-49: what mock_property_data.json can be when a call starts
CacheFiles ==
    {Absent, Unreadable, BadJson, JsonFile(<<>>), JsonFile(StoredDataset)}
    \cup {JsonFile(create_mock_properties(s)) : s \in Seeds}

InitScraper ==
    /\ pc = "idle"
    /\ max_retries = 0
    /\ retry_count = 0
    /\ properties = <<>>
    /\ mock_data = None
    /\ response = NoResponse
    /\ outcome = "none"
    /\ result = <<>>
    /\ cache_file \in CacheFiles
    /\ html_file = Absent
    /\ home_requests = 0
    /\ url_requests = 0
    /\ sleeps = 0
    /\ jitter = None
    /\ cache_at_call = cache_file
    /\ scrapes = 0

NextScraper ==
    \/ \E n \in 0..MaxRetries : Call(n)
    \/ BackoffSleep
    \/ BackoffOver
    \/ AttemptRaises
    \/ AttemptStatus
    \/ AttemptWriteRaises
    \/ AttemptBlocked
    \/ AttemptExtract
    \/ ReturnLive
    \/ ReturnCached
    \/ ReturnSynthesized
    \/ SynthesizeRaises

Init == InitScraper /\ InitStore /\ InitParsed /\ InitSessions

\* scraper.py alone, from every state of the fallback cache
SpecScraper == Init /\ [][NextScraper]_vars

\* db.py alone, from the empty store
InitDb == InitScraper /\ cache_file = Absent /\ InitStore /\ InitParsed /\ InitSessions

SpecStore == InitDb /\ [][NextStore]_vars

\* the parsers alone, each applied to each argument
InitParsers ==
    /\ InitScraper /\ cache_file = Absent
    /\ InitStore
    /\ argument \in Arguments
    /\ parsed = NoParse
    /\ InitSessions

SpecParsers == InitParsers /\ [][NextParsers]_vars

\* db.py alone, from the empty store, the calls two at a time
SpecConcurrent == InitDb /\ [][NextSessions]_vars

Next == NextScraper \/ NextStore \/ NextParsers \/ NextSessions

Spec == Init /\ [][Next]_vars

\* ================================================================= claims
\* ----------------------------------------------------- scrape_rakumachi
Finished == scrapes > 0 /\ pc \in {"returned", "raised"}

\* the loop of the current call ended with every attempt failed
Exhausted == scrapes > 0 /\ pc # "break" /\ retry_count = max_retries

\* the records of the non-promotional blocks whose extraction does not fail,
\* in page order
LiveRecords(blocks) ==
    LET shown(b) == ~b.Ad__pr /\ ~b.dangling
        kept == SelectSeq(blocks, shown)
    IN [i \in 1..Len(kept) |-> PropertyData(kept[i])]

GoodResponse(resp) ==
    /\ resp.kind = "http"
    /\ resp.status_code = 200
    /\ ~resp.blocked
    /\ LiveRecords(resp.blocks) # <<>>

NonEmptyCache(file) == file.kind = "json" /\ file.value # <<>>

\* C1: when every attempt of a call with budget N >= 0 fails, the call has
\* requested the target URL exactly N times and returns a non-empty fallback
\* dataset; with N = 0 it issues no request at all.
C1_FallbackAfterNAttempts ==
    (Finished /\ outcome # "success") =>
        /\ pc = "returned"
        /\ url_requests = max_retries
        /\ (max_retries = 0 => home_requests = 0)
        /\ result # <<>>

\* C6 as stated: when every attempt of a call with budget N has failed, the
\* number of HTTP requests issued, warm-up requests included, is N.
C6_RequestsEqualN ==
    Exhausted => home_requests + url_requests = max_retries

\* C6 amended: when every attempt of a call with budget N has failed, the
\* target URL was requested exactly N times, and with the warm-up request that
\* precedes each of them the fetcher issued 2N HTTP requests.
C6_TargetRequestsEqualN ==
    Exhausted =>
        /\ url_requests = max_retries
        /\ home_requests = max_retries
        /\ home_requests + url_requests = 2 * max_retries

C6_Witness ==
    /\ Finished
    /\ Exhausted
    /\ max_retries = 2
    /\ outcome = "exception"
    /\ home_requests + url_requests = 4

\* C7: scrape_rakumachi never raises to its caller, whatever the requests and
\* the file operations on the diagnostic body and the fallback cache do.
C7_NeverRaises == pc # "raised"

\* C8: an attempt whose response has status 200, no block marker and at least
\* one extracted record (the attempt raised nothing and reached the
\* extraction) ends the loop; from there the call returns exactly the
\* records of that response in page order, with no further request, no further
\* backoff sleep and the fallback cache as it was when the call started.
C8_StopsOnSuccess ==
    [][ /\ ( /\ pc \in {"loop", "slept"}
             /\ url_requests' = url_requests + 1
             /\ GoodResponse(response')
             /\ outcome' # "exception" )
            => ( /\ pc' = "break"
                 /\ outcome' = "success"
                 /\ url_requests' = retry_count' + 1
                 /\ sleeps' = retry_count' )
        /\ pc = "break"
            => ( /\ pc' = "returned"
                 /\ result' = LiveRecords(response.blocks)
                 /\ url_requests' = url_requests
                 /\ home_requests' = home_requests
                 /\ sleeps' = sleeps
                 /\ cache_file' = cache_file
                 /\ cache_file = cache_at_call )
      ]_vars

C8_Witness ==
    /\ pc = "returned"
    /\ outcome = "success"
    /\ retry_count = 1
    /\ Len(response.blocks) = 2
    /\ response.blocks[1].n = 2
    /\ response.blocks[2].n = 1
    /\ Len(result) = 2
    /\ result[1] = PropertyData(response.blocks[1])

\* C9: when a non-empty cached fallback dataset exists at the start of a call
\* and all N attempts fail, the call returns exactly that dataset, and the
\* cache file is left as it was.
C9_ReturnsCachedDataset ==
    (scrapes > 0 /\ NonEmptyCache(cache_at_call)) =>
        /\ cache_file = cache_at_call
        /\ (Finished /\ Exhausted) =>
              (pc = "returned" /\ result = cache_at_call.value)

C9_Witness ==
    /\ Finished
    /\ Exhausted
    /\ max_retries = 2
    /\ NonEmptyCache(cache_at_call)
    /\ result = cache_at_call.value
    /\ html_file # Absent

\* C10: when no cached fallback dataset exists and all attempts of a call
\* fail, the synthesized dataset is written to the cache and returned, and a
\* later call that exhausts its attempts returns the dataset the cache holds.
C10_SynthesizedIsCached ==
    /\ (Finished /\ Exhausted /\ cache_at_call = Absent) =>
          /\ pc = "returned"
          /\ result # <<>>
          /\ cache_file = JsonFile(result)
    /\ (Finished /\ Exhausted /\ scrapes > 1 /\ NonEmptyCache(cache_at_call)) =>
          /\ pc = "returned"
          /\ result = cache_at_call.value
          /\ cache_file = cache_at_call

\* --------------------------------------------------- save_property_data
CallRec == Inputs[call.input]
CallParsed == ParsedInputs[call.input]

ListingRows(listing_id) ==
    {i \in 1..Len(Property) : Property[i].listing_id = listing_id}

\* the snapshots of the Listings with this listing id
SnapshotRows(listing_id) ==
    {j \in 1..Len(PriceHistory) :
        \E i \in ListingRows(listing_id) : PriceHistory[j].property_id = Property[i].id}

\* the URL is absent or has no "id" that digits follow
C5_NoIdentity(rec) ==
    \/ IsNone(rec.detail_url)
    \/ LET t == Val(rec.detail_url)
       IN \A i \in 1..Len(t) :
             ~(i + 2 <= Len(t) /\ t[i] = "i" /\ t[i + 1] = "d" /\ t[i + 2] \in Digit)

\* the latest call and the call before it were given the same record, its
\* listing id was absent before the first of them, and neither call failed
TwiceInARow ==
    \/ call.outcome = "updated" /\ call.after = "created"
    \/ call.outcome = "skipped" /\ call.after = "skipped"

\* C2: a record with a derivable listing id that is reconciled twice in a row,
\* the id absent before, leaves exactly one Listing and exactly one
\* PriceSnapshot for that id, whether price and yield are present or absent.
C2_TwiceIsOnce ==
    (TwiceInARow /\ ~C5_NoIdentity(CallRec)) =>
        /\ Cardinality(ListingRows(Val(CallParsed.listing_id))) = 1
        /\ Cardinality(SnapshotRows(Val(CallParsed.listing_id))) = 1

\* C2 for the listing ids other than 0: the two calls ran to their commit
C2_TwiceIsOnceCommitted ==
    (call.outcome = "updated" /\ call.after = "created") =>
        /\ Cardinality(ListingRows(Val(CallParsed.listing_id))) = 1
        /\ Cardinality(SnapshotRows(Val(CallParsed.listing_id))) = 1

\* what C3 says decides the append, against the snapshot latest
C3_Differs(latest, p) ==
    \/ (~IsNone(p.price) /\ Val(p.price) # latest.price)
    \/ (~IsNone(p.gross) /\ p.gross # latest.gross)

\* C3: a reconciliation against an existing Listing appends exactly one
\* snapshot if no prior snapshot exists, or the new price is present (0
\* included) and differs from the latest snapshot's, or the new yield is
\* present and differs from the latest snapshot's; otherwise it appends none.
C3_AppendsIffChanged ==
    [][ (saves' = saves + 1 /\ call'.outcome = "updated") =>
          LET p == ParsedInputs[call'.input]
              prior == SnapshotRows(Val(p.listing_id))
              latest == {j \in prior :
                            \A k \in prior :
                                PriceHistory[k].scraped_at <= PriceHistory[j].scraped_at}
              added == Len(PriceHistory') - Len(PriceHistory)
          IN /\ added \in {0, 1}
             /\ \/ prior = {} /\ added = 1
                \/ \E j \in latest : (added = 1) <=> C3_Differs(PriceHistory[j], p)
      ]_vars

\* C4: a reconciliation whose parsed price differs from the price of the
\* latest snapshot appends exactly one snapshot, which carries the new price,
\* and leaves every earlier snapshot as it was.
C4_NewPriceAppends ==
    [][ (saves' = saves + 1 /\ call'.outcome = "updated") =>
          LET p == ParsedInputs[call'.input]
              prior == SnapshotRows(Val(p.listing_id))
              latest == {j \in prior :
                            \A k \in prior :
                                PriceHistory[k].scraped_at <= PriceHistory[j].scraped_at}
          IN ( /\ ~IsNone(p.price)
               /\ latest # {}
               /\ \A j \in latest : PriceHistory[j].price # Val(p.price) )
             => ( /\ Len(PriceHistory') = Len(PriceHistory) + 1
                  /\ SubSeq(PriceHistory', 1, Len(PriceHistory)) = PriceHistory
                  /\ PriceHistory'[Len(PriceHistory')].price = Val(p.price) )
      ]_vars

\* C5: a call with a record from which no listing id can be derived leaves
\* the store exactly as it was.
C5_NoIdentityNoChange ==
    [][ (saves' = saves + 1 /\ C5_NoIdentity(Inputs[call'.input])) =>
          /\ Property' = Property
          /\ PriceHistory' = PriceHistory
          /\ call'.outcome = "skipped"
      ]_vars

C5_Witness ==
    /\ call.outcome = "skipped"
    /\ C5_NoIdentity(CallRec)
    /\ ~IsNone(CallRec.detail_url)
    /\ Len(Property) = 2
    /\ Len(PriceHistory) = 1

\* the step is one save_property_data call
SaveStep == saves' = saves + 1

\* C11: a call that fails leaves both tables as they were before the call, and
\* no step leaves a new Listing in the store without the initial snapshot of
\* a record that carried a price.
C11_FailureDiscardsAll ==
    [][ SaveStep =>
          LET p == ParsedInputs[call'.input]
          IN /\ call'.outcome = "failed" =>
                    (Property' = Property /\ PriceHistory' = PriceHistory)
             /\ (Len(Property') > Len(Property) /\ ~IsNone(p.price)) =>
                    /\ Len(PriceHistory') = Len(PriceHistory) + 1
                    /\ PriceHistory'[Len(PriceHistory')].property_id
                           = Property'[Len(Property')].id
      ]_vars

\* a priced record of a listing not in the store failed, after a commit
C11_Witness ==
    /\ call.outcome = "failed"
    /\ ~IsNone(CallParsed.price)
    /\ ListingRows(Val(CallParsed.listing_id)) = {}
    /\ Len(Property) = 1
    /\ Len(PriceHistory) = 1

\* C12: a call that skips its record or whose transaction fails raises
\* nothing to the loop of save_properties_from_rakumachi, so the loop goes on
\* to the next record, and it leaves the rows committed before it as they were.
C12_BatchGoesOn ==
    [][ (SaveStep /\ call'.outcome \in {"skipped", "failed"}) =>
          /\ ~call'.raised
          /\ Property' = Property
          /\ PriceHistory' = PriceHistory
      ]_vars

\* a record is reconciled right after its transaction failed, and the Listing
\* committed before the failure is still there
C12_Witness ==
    /\ call.outcome = "created"
    /\ call.after = "failed"
    /\ saves = 3
    /\ Len(Property) = 2
    /\ Property[1].listing_id # Val(CallParsed.listing_id)

\* the fields an update overwrites only with a parsed value
GuardedFields == {"pub_date", "build_at", "floors", "building_area", "land_area"}

\* C13: after an update of an existing Listing, each of pub_date, build_at,
\* floors, building_area and land_area is the newly parsed value if the parser
\* returned one (0 included), and its previous value if the parser returned
\* none.
C13_UpdateKeepsKnown ==
    [][ (SaveStep /\ call'.outcome = "updated") =>
          LET p == ParsedInputs[call'.input]
          IN \A i \in ListingRows(Val(p.listing_id)) :
                \A f \in GuardedFields :
                    Property'[i][f] = IF ~IsNone(p[f]) THEN p[f] ELSE Property[i][f]
      ]_vars

\* C14: whatever calls were made (committed, skipped or failed), no two
\* Listings of the store have the same listing id.
C14_ListingIdUnique ==
    \A i, j \in 1..Len(Property) :
        Property[i].listing_id = Property[j].listing_id => i = j

\* two Listings, and the latest call found its Listing and updated it
C14_Witness ==
    /\ Len(Property) = 2
    /\ call.outcome = "updated"
    /\ saves = 3

\* C15: in every state of the store, a Listing for which a committed call
\* carried a non-null price has at least one PriceSnapshot.
C15_ObservedHasSnapshot ==
    \A listing_id \in observed :
        /\ ListingRows(listing_id) # {}
        /\ SnapshotRows(listing_id) # {}

\* the Listing was created by a record without a price, so without a
\* snapshot, and the update that carried the first price appended one
C15_Witness ==
    /\ call.outcome = "updated"
    /\ ~IsNone(CallParsed.price)
    /\ Val(CallParsed.listing_id) \in observed
    /\ Len(Property) = 1
    /\ Len(PriceHistory) = 1
    /\ PriceHistory[1].scraped_at > Property[1].scraped_at
    /\ saves = 2

\* C16: no step deletes a committed snapshot or changes its price, yield,
\* timestamp or owning Listing: the snapshots before the step are the first
\* snapshots after it, and the Listings they belong to keep their identity.
C16_SnapshotsAppendOnly ==
    [][ /\ Len(PriceHistory') >= Len(PriceHistory)
        /\ SubSeq(PriceHistory', 1, Len(PriceHistory)) = PriceHistory
        /\ \A j \in 1..Len(PriceHistory) :
              \E i \in 1..Len(Property) :
                  /\ Property[i].id = PriceHistory[j].property_id
                  /\ i <= Len(Property')
                  /\ Property'[i].id = Property[i].id
                  /\ Property'[i].listing_id = Property[i].listing_id
      ]_vars

\* an update appended a second snapshot to its Listing, next to the first
C16_Witness ==
    /\ call.outcome = "updated"
    /\ Len(Property) = 1
    /\ Len(PriceHistory) = 2
    /\ PriceHistory[1].price # PriceHistory[2].price
    /\ PriceHistory[1].property_id = PriceHistory[2].property_id

\* every call so far added one Listing and one snapshot of it
OnePerCall ==
    /\ Len(Property) = saves
    /\ Len(PriceHistory) = saves
    /\ \A i \in 1..Len(Property) :
          Cardinality({j \in 1..Len(PriceHistory) :
                          PriceHistory[j].property_id = Property[i].id}) = 1

\* the record of the step's call has a derivable listing id that no Listing
\* has yet, and a parsable price; the call's transaction does not fail
FreshPriced ==
    LET p == ParsedInputs[call'.input]
    IN /\ SaveStep
       /\ call'.outcome # "failed"
       /\ ~C5_NoIdentity(Inputs[call'.input])
       /\ ~IsNone(p.price)
       /\ ListingRows(Val(p.listing_id)) = {}

\* C17: from the empty store, n records with pairwise distinct listing ids and
\* parsable prices give n Listings and n snapshots, one per Listing, holding
\* the record's price.  As a step: when the n records so far gave n Listings
\* with one snapshot each, the next such record gives n + 1.
C17_DistinctRecords ==
    [][ (OnePerCall /\ FreshPriced) =>
          LET p == ParsedInputs[call'.input]
          IN /\ Len(Property') = saves'
             /\ Len(PriceHistory') = saves'
             /\ Property'[saves'].listing_id = Val(p.listing_id)
             /\ PriceHistory'[saves'].property_id = Property'[saves'].id
             /\ PriceHistory'[saves'].price = Val(p.price)
             /\ SubSeq(Property', 1, saves) = Property
             /\ SubSeq(PriceHistory', 1, saves) = PriceHistory
      ]_vars

\* C18: a call with a record whose URL has "id" followed by digits d, when no
\* Listing has listing id int(d), adds one Listing with listing id int(d), and
\* one initial snapshot of it if the record has a price, none otherwise; for
\* every d, 0 included.
C18_CreatesListing ==
    [][ (SaveStep /\ call'.outcome # "failed") =>
          LET p == ParsedInputs[call'.input]
              n == Len(Property)
              h == Len(PriceHistory)
          IN (~C5_NoIdentity(Inputs[call'.input]) /\ ListingRows(Val(p.listing_id)) = {})
             => /\ Len(Property') = n + 1
                /\ SubSeq(Property', 1, n) = Property
                /\ Property'[n + 1].listing_id = Val(p.listing_id)
                /\ IF IsNone(p.price)
                     THEN PriceHistory' = PriceHistory
                     ELSE /\ Len(PriceHistory') = h + 1
                          /\ SubSeq(PriceHistory', 1, h) = PriceHistory
                          /\ PriceHistory'[h + 1].property_id = Property'[n + 1].id
                          /\ PriceHistory'[h + 1].price = Val(p.price)
      ]_vars

\* C19: what save_property_data hands to its caller tells a committed call
\* from a skipped and from a failed one: a committed call returns nothing, a
\* skipped or failed call signals it, by its return value or by raising.
C19_OutcomeSignalled ==
    /\ call.outcome \in {"created", "updated"} =>
          (IsNone(call.returned) /\ ~call.raised)
    /\ call.outcome \in {"skipped", "failed"} =>
          (~IsNone(call.returned) \/ call.raised)

\* the lists a successful live fetch can return
LiveResults == {LiveRecords(p) : p \in Pages} \ {<<>>}

\* the lists the fallback can return: a cached dataset or a synthesized one
FallbackResults ==
    {f.value : f \in {c \in CacheFiles : NonEmptyCache(c)}}
    \cup {create_mock_properties(s) : s \in Seeds}

\* C20: the returned value tells its caller where the records came from: a
\* list returned by a successful live fetch is never a list the fallback can
\* return, and a list returned as fallback is never one a live fetch can return.
C20_SourceTold ==
    (Finished /\ pc = "returned") =>
        IF outcome = "success"
          THEN result \notin FallbackResults
          ELSE result \notin LiveResults

\* ------------------------------------------------------------ the parsers
\* C21: every field parser, applied to None, to empty text, to a value that is
\* not text, or to text that matches its pattern and does not convert, returns
\* absent or a value: no call of a parser ends by raising
C21_ParsersTotal == ~parsed.out.raised

\* parse_date was given month 13: strptime raised, the handler returned None
C21_Witness ==
    /\ parsed.parser = "parse_date"
    /\ argument = Some(<<"2", "0", "2", "5", "/", "1", "3", "/", "1">>)
    /\ parsed.out.exc = "ValueError"
    /\ ~parsed.out.raised
    /\ parsed.out.value = None

\* the currency marker of extract_price
CurrencyMarker == <<"man", "en">>

\* the first run of digits and commas that ends right before the currency
\* marker, None if the text has none
PriceRun(t) ==
    LET class == Digit \cup {","}
        ends == {j \in 1..Len(t) : t[j] \in class /\ HasAt(t, j + 1, CurrencyMarker)}
        j == Min(ends)
        i == Min({i \in 1..j : \A k \in i..j : t[k] \in class})
    IN IF ends = {} THEN None ELSE Some(SubSeq(t, i, j))

\* the digits of a run
DigitsOf(run) == SelectSeq(run, LAMBDA c : c \in Digit)

\* extract_price was applied to None or to text
PriceParsed == parsed.parser = "extract_price" /\ (IsNone(argument) \/ IsStr(argument))

\* C22 as stated: extract_price returns the integer formed by the run of digits
\* and commas before the currency marker whenever the text has such a run, and
\* absent when the input is None or has no such run
C22_PriceIsRunAsStated ==
    PriceParsed =>
        parsed.out.value =
            IF IsNone(argument) \/ IsNone(PriceRun(Val(argument))) THEN None
            ELSE Some(ToInt(DigitsOf(Val(PriceRun(Val(argument))))))

\* C22: extract_price returns the integer formed by the digits of the first
\* run of digits and commas that ends right before the currency marker, and
\* absent when the input is None, has no such run, or the run has no digit
C22_PriceIsRun ==
    PriceParsed =>
        parsed.out.value =
            IF IsNone(argument) \/ IsNone(PriceRun(Val(argument))) THEN None
            ELSE IF DigitsOf(Val(PriceRun(Val(argument)))) = <<>> THEN None
            ELSE Some(ToInt(DigitsOf(Val(PriceRun(Val(argument))))))

\* '1,234' before the marker gives 1234
C22_Witness ==
    /\ parsed.parser = "extract_price"
    /\ argument = Some(<<"1", ",", "2", "3", "4", "man", "en">>)
    /\ parsed.out.value = Some(1234)

\* ----------------------------------------------------- scrape_rakumachi
\* an attempt: the step that requests the target URL and handles the response
AttemptStep == url_requests' = url_requests + 1

\* the attempt failed: a status other than 200, the block marker in a 200
\* body, no record extracted, or an exception
FailedAttempt ==
    /\ AttemptStep
    /\ \/ outcome' = "exception"
       \/ response'.kind = "exc"
       \/ response'.status_code # 200
       \/ response'.blocked
       \/ LiveRecords(response'.blocks) = <<>>

\* C23: each failed attempt adds exactly one to the failed-attempt counter, no
\* other step changes it within a call, the counter never exceeds max_retries,
\* and the target URL is requested at most max_retries times in one call.
C23_FailedAttemptCounts ==
    [][ /\ FailedAttempt => retry_count' = retry_count + 1
        /\ (scrapes' = scrapes /\ ~FailedAttempt) => retry_count' = retry_count
        /\ retry_count' <= max_retries'
        /\ url_requests' <= max_retries'
      ]_vars

\* two attempts failed, the second one with no record extracted
C23_Witness ==
    /\ pc = "loop"
    /\ max_retries = 2
    /\ retry_count = 2
    /\ url_requests = 2
    /\ outcome = "empty"
    /\ response.status_code = 200

\* C24: within one call a backoff sleep happens exactly between consecutive
\* attempts: none before the first attempt, one before each later attempt,
\* none after the last failed attempt; each lasts between 0.5 and 2.0 times
\* retry_delay (durations in tenths of a second).
C24_BackoffBetweenAttempts ==
    [][ /\ sleeps' = IF url_requests' = 0 THEN 0
                     ELSE IF pc' \in {"sleeping", "slept"} THEN url_requests'
                     ELSE url_requests' - 1
        /\ pc' = "sleeping" =>
              /\ url_requests' > 0
              /\ retry_count' < max_retries'
              /\ \A retry_delay \in RetryDelays :
                    /\ 5 * retry_delay <= sleep_time(retry_delay, Val(jitter'))
                    /\ sleep_time(retry_delay, Val(jitter')) <= 20 * retry_delay
        /\ (AttemptStep /\ url_requests > 0) => pc = "slept"
        /\ (AttemptStep /\ url_requests = 0) => sleeps = 0
        /\ pc' # "sleeping" => IsNone(jitter')
      ]_vars

\* after the first failed attempt of two the longest backoff sleep is under
\* way: 2.0 * 10 seconds with the default retry_delay
C24_Witness ==
    /\ pc = "sleeping"
    /\ max_retries = 2
    /\ retry_count = 1
    /\ url_requests = 1
    /\ sleeps = 1
    /\ sleep_time(10, Val(jitter)) = 200

\* --------------------------------------------------- save_property_data
\* the snapshots of the Listings with this listing id, in append order
SnapshotSeq(listing_id) ==
    SelectSeq(PriceHistory,
              LAMBDA h : \E i \in ListingRows(listing_id) : h.property_id = Property[i].id)

\* C25: change detection compares only with the latest snapshot: a Listing
\* reconciled with prices A, then B # A, holds the snapshots A, B; reconciling
\* it with price A again leaves the three snapshots A, B, A, in timestamp
\* order.
C25_ReturnToEarlierPrice ==
    [][ (SaveStep /\ call'.outcome = "updated") =>
          LET p == ParsedInputs[call'.input]
              prior == SnapshotSeq(Val(p.listing_id))
              last == PriceHistory'[Len(PriceHistory')]
          IN ( /\ Len(prior) = 2
               /\ ~IsNone(p.price)
               /\ prior[1].price = Val(p.price)
               /\ prior[2].price # prior[1].price )
             => ( /\ PriceHistory' = Append(PriceHistory, last)
                  /\ last.property_id = prior[1].property_id
                  /\ last.price = Val(p.price)
                  /\ prior[1].scraped_at <= prior[2].scraped_at
                  /\ prior[2].scraped_at <= last.scraped_at )
      ]_vars

\* C26: the snapshots of one Listing are totally ordered by timestamp: no two
\* of them share a scraped_at, scraped_at increases in append order, and the
\* snapshot the latest_price query returns is the one appended last.
C26_SnapshotsTotallyOrdered ==
    \A j \in 1..Len(PriceHistory) :
        /\ \A i \in 1..(j - 1) :
              PriceHistory[i].property_id = PriceHistory[j].property_id
                  => PriceHistory[i].scraped_at < PriceHistory[j].scraped_at
        /\ \A i \in Latest(PriceHistory[j].property_id) : i >= j

\* ----------------------------------------------------- scrape_rakumachi
\* C27: last_response.html is overwritten only by an attempt that ends in
\* success, which writes the body of its response; every other step, the
\* attempts that are blocked or extract no record included, leaves the file
\* as it was.
C27_BodyOfLastSuccess ==
    [][ /\ (AttemptStep /\ outcome' = "success")
              => html_file' = HtmlFile(Body(response'))
        /\ html_file' # html_file => (AttemptStep /\ outcome' = "success")
      ]_vars

\* the field names of extract_property_data
FieldNames ==
    {"pub_date", "price", "gross", "build_at", "structure", "place", "access",
     "stories", "doors", "square", "detail_url"}

\* C28: every record a call returns, extracted live or synthesized as
\* fallback, carries exactly the eleven field names of extract_property_data.
C28_ElevenFields ==
    pc = "returned" => \A i \in 1..Len(result) : DOMAIN result[i] = FieldNames

\* one record for each fragment that is not promotional, in page order
FragmentRecords(blocks) ==
    LET kept == SelectSeq(blocks, LAMBDA b : ~b.Ad__pr)
    IN [i \in 1..Len(kept) |-> PropertyData(kept[i])]

\* C29: from a page with k listing fragments of which p are promotional the
\* extraction gives exactly k - p records, in page order: one for each
\* fragment that is not promotional, also when a label of the fragment is
\* missing or has no value element after it (the field is then absent).
C29_OneRecordPerFragment ==
    [][ (AttemptStep /\ outcome' \in {"success", "empty"}) =>
          /\ properties' = FragmentRecords(response'.blocks)
          /\ Len(properties') =
                Len(response'.blocks)
                - Cardinality({i \in 1..Len(response'.blocks) : response'.blocks[i].Ad__pr})
      ]_vars

\* the call exhausted its attempts without a cache and returned what
\* create_mock_properties gave it
Synthesized == Finished /\ Exhausted /\ pc = "returned" /\ cache_at_call = Absent

\* C30: fallback synthesis is deterministic: every execution of
\* create_mock_properties gives the same dataset, field for field, so every
\* exhausted call that starts without a cache returns that one dataset.
C30_SynthesisDeterministic ==
    Synthesized => \A s \in Seeds : result = create_mock_properties(s)

\* ---------------------------------------------------------------- C31
\* the columns of a Listing that lines 190-202 assign
UpdatedColumns ==
    {"address", "access", "structure", "pub_date", "build_at", "floors",
     "building_area", "land_area"}

\* every column of the properties table (lines 38-50)
PropertyColumns ==
    {"id", "listing_id", "address", "pub_date", "access", "structure",
     "land_area", "building_area", "build_at", "floors", "detail_url",
     "scraped_at", "closed_at"}

\* C31: once a Listing is stored, no save_property_data call, however it ends,
\* deletes it or changes its id, its listing id, its detail URL, its first-seen
\* date or its closed date: every stored row is still there after the call,
\* and the only columns in which it can differ are address, access, structure,
\* pub_date, build_at, floors, building_area and land_area.
C31_UpdateFrame ==
    [][ SaveStep =>
          /\ Len(Property') >= Len(Property)
          /\ \A i \in 1..Len(Property) :
                \A c \in PropertyColumns \ UpdatedColumns :
                    Property'[i][c] = Property[i][c] ]_vars

\* a Listing created from one URL at time 0 has been updated, after time 0, with
\* a record that carries another URL and other details: the address and the
\* floors are the record's, the URL and the first-seen date are the old ones
C31_Witness ==
    /\ call.outcome = "updated"
    /\ Get(CallRec, "detail_url") = Some(MovedUrl)
    /\ clock > 0
    /\ Len(Property) = 1
    /\ Property[1].detail_url = Some(ListingUrl(1))
    /\ Property[1].scraped_at = 0
    /\ Property[1].address = Get(CallRec, "place")
    /\ Property[1].floors = Some(3)

\* ---------------------------------------------------------------- C32
\* main.py lines 144-147, 164: the prices get_db_properties can show for a
\* Listing, one for each row order_by(desc(scraped_at)).first() can return
CurrentPrices(history, property_id) ==
    {history[i].price :
        i \in {i \in 1..Len(history) :
                  /\ history[i].property_id = property_id
                  /\ \A j \in 1..Len(history) :
                        history[j].property_id = property_id
                            => history[j].scraped_at <= history[i].scraped_at}}

\* the call that has just ended was given a record without a price, for a
\* Listing that had a snapshot
AbsentPriceStep ==
    /\ SaveStep
    /\ LET p == ParsedInputs[call'.input]
       IN /\ IsNone(p.price)
          /\ ~Rejected(p.listing_id)
          /\ SnapshotRows(Val(p.listing_id)) # {}

\* C32 as stated: reconciling a record whose price is absent against a Listing
\* that already has a snapshot never changes the Listing's current price,
\* whatever the record's yield is.
C32_AbsentPriceKeepsCurrentAsStated ==
    [][ AbsentPriceStep =>
          LET id == Property[Min(Existing(Val(ParsedInputs[call'.input].listing_id)))].id
          IN CurrentPrices(PriceHistory', id) = CurrentPrices(PriceHistory, id)
      ]_vars

\* C32, amended: reconciling a record whose price is absent against a Listing
\* that already has a snapshot changes the current price only by appending a
\* snapshot with price 0, and only when the record's yield is present, not
\* zero and different from the yield of a most recent snapshot; when the
\* update commits and the yield differs from that of every most recent
\* snapshot, the snapshot with price 0 is appended; when the yield is absent
\* or zero the current price is unchanged.
C32_AbsentPriceKeepsCurrent ==
    [][ AbsentPriceStep =>
          LET p == ParsedInputs[call'.input]
              id == Property[Min(Existing(Val(p.listing_id)))].id
              differs == {i \in Latest(id) : PriceHistory[i].gross # p.gross}
              last == PriceHistory'[Len(PriceHistory')]
          IN /\ CurrentPrices(PriceHistory', id) \subseteq CurrentPrices(PriceHistory, id) \cup {0}
             /\ CurrentPrices(PriceHistory', id) # CurrentPrices(PriceHistory, id)
                   => (TruthyFloat(p.gross) /\ differs # {})
             /\ PriceHistory' # PriceHistory
                   => /\ PriceHistory' = Append(PriceHistory, last)
                      /\ last.property_id = id /\ last.price = 0 /\ last.gross = p.gross
                      /\ TruthyFloat(p.gross) /\ differs # {}
             /\ (call'.outcome = "updated" /\ TruthyFloat(p.gross) /\ differs = Latest(id))
                   => (PriceHistory' # PriceHistory /\ 0 \in CurrentPrices(PriceHistory', id))
             /\ ~TruthyFloat(p.gross) => PriceHistory' = PriceHistory
      ]_vars

\* a Listing whose only snapshot had price 1 has been updated with a record
\* that has no price and the yield 5.5%: its current price is now 0
C32_Witness ==
    /\ call.outcome = "updated"
    /\ IsNone(CallParsed.price)
    /\ TruthyFloat(CallParsed.gross)
    /\ Len(Property) = 1
    /\ Len(PriceHistory) = 2
    /\ PriceHistory[1].price = 1
    /\ PriceHistory[2].price = 0
    /\ PriceHistory[2].gross = CallParsed.gross
    /\ PriceHistory[1].scraped_at < PriceHistory[2].scraped_at
    /\ CurrentPrices(PriceHistory, Property[1].id) = {0}

\* ---------------------------------------------------------------- C33
\* lines 187-251 as a function of the store: the stores <<Property,
\* PriceHistory>> one committed save_property_data call can leave when it
\* runs alone on store at time now, one for each row the latest_price query
\* can return
save_property_data(store, rec, p, now) ==
    LET existing == {i \in 1..Len(store[1]) : store[1][i].listing_id = Val(p.listing_id)}
        snapshot(property_id, price) ==
            [NewPriceHistory(property_id, price, p.gross, now)
                EXCEPT !.id = Len(store[2]) + 1]
    IN IF existing = {}
         THEN {<<session_add(store[1],
                             [NewProperty(rec, p, now) EXCEPT !.id = Len(store[1]) + 1]),
                 IF InitialSnapshot(p.price)
                   THEN session_add(store[2], snapshot(Len(store[1]) + 1, Val(p.price)))
                   ELSE store[2]>>}
         ELSE LET i == Min(existing)
                  row == store[1][i]
                  latest == {j \in 1..Len(store[2]) :
                                /\ store[2][j].property_id = row.id
                                /\ \A h \in 1..Len(store[2]) :
                                      store[2][h].property_id = row.id
                                          => store[2][h].scraped_at <= store[2][j].scraped_at}
                  found == IF latest = {} THEN {None}
                           ELSE {Some(store[2][j]) : j \in latest}
              IN {<<[store[1] EXCEPT ![i] = UpdatedProperty(row, rec, p)],
                    IF Appends(latest_price, p.price, p.gross)
                      THEN session_add(store[2],
                                       snapshot(row.id,
                                                IF ~IsNone(p.price) THEN Val(p.price) ELSE 0))
                      ELSE store[2]>> : latest_price \in found}

\* lines 266-268: the stores two calls with the same record, one after the
\* other, can leave; the clock reads start or later at the first call and no
\* earlier at the second
Sequential(store, rec, p, start) ==
    UNION {UNION {save_property_data(first, rec, p, t2) : t2 \in {t1, t1 + 1}} :
              <<first, t1>> \in
                  UNION {save_property_data(store, rec, p, t) \X {t} : t \in {start, start + 1}}}

\* C33: when two save_property_data calls for the same record run
\* concurrently, each in its own transaction with the lookup and the write as
\* separate steps, the store they leave has at most one Listing for the id
\* and is a store that the two calls run one after the other can leave: the
\* same Listings and the same snapshots, none twice for one observed
\* price and yield.
C33_IdempotentUnderInterleaving ==
    (pairs > 0 /\ \A t \in Sessions : Ended(t)) =>
        LET p == ParsedInputs[pair.input]
        IN /\ Cardinality(ListingRows(Val(p.listing_id))) <= 1
           /\ <<Property, PriceHistory>>
                 \in Sequential(pair.start, Inputs[pair.input], p, pair.clock)

====
